---- MODULE Spec2Model ----
(***************************************************************************)
(* Model of src/main.rs: the cookie session gate (authorization), the      *)
(* login handshake (login), the router built in main, the dashboard view   *)
(* (root -> get_day_start_hour -> get_due_tasks -> task_due_today) and the *)
(* completion action (clicked -> score_task).                              *)
(*                                                                         *)
(* Time is counted in whole hours of local time since Monday               *)
(* 2024-01-01T00:00 (hour 0); 2024-01-02T01:00 is hour 25.  The local      *)
(* offset is taken as fixed.  An Option<T> is a sequence: None is <<>>,    *)
(* Some(x) is <<x>>.  One request is in flight at a time: handlers share   *)
(* no mutable state (AppState is cloned, read-only).                       *)
(***************************************************************************)
EXTENDS Integers, Sequences, FiniteSets, TLC

VARIABLES
    state,            \* AppState: username, password, authz_token (main.rs 238-258)
    now,              \* chrono::Local::now(), in hours since Monday 2024-01-01T00:00
    pc,               \* position of the request in flight
    req,              \* the request in flight: route, cookie jar, form body, client
    gate_ran,         \* the authorization middleware ran for this request
    admitted,         \* authorization called next.run(req) for this request
    day_start_hour,   \* root's local day_start_hour / task_due_today's argument
    all_tasks,        \* get_due_tasks' local all_tasks
    idx,              \* position of the filter iterator in all_tasks
    due_tasks,        \* the tasks collected by the filter so far
    read_at,          \* history: the clock reading used for each task filtered
    repeat_schedule,  \* task_due_today's argument of the last evaluation
    day_of_week,      \* task_due_today's local day_of_week of the last evaluation
    due,              \* task_due_today's last return value
    upstream_status,  \* res.status() seen by score_task (0: none yet)
    score_result,     \* how score_task ended: "none", "Ok", "Err", "panic"
    remote_calls,     \* number of remote calls sent for this request
    resp,             \* the response to the request in flight
    browser_jar,      \* the session cookie stored by the browser client
    good_login        \* history: the browser submitted the configured credentials

vars == <<state, now, pc, req, gate_ran, admitted, day_start_hour, all_tasks, idx,
          due_tasks, read_at, repeat_schedule, day_of_week, due, upstream_status,
          score_result, remote_calls, resp, browser_jar, good_login>>

-----------------------------------------------------------------------------
(* Bounds *)

MaxTasks == 2
MaxNow == 26
MaxDayStart == 26

-----------------------------------------------------------------------------
(* Values *)

None == <<>>
Some(x) == <<x>>

Tokens == {"", "tok"}
CookieValues == {"", "tok", "bad"}
Usernames == {"admin", "guest"}
Passwords == {"pw", ""}

Weekdays == <<"Mon", "Tue", "Wed", "Thu", "Fri", "Sat", "Sun">>
Flags == {"su", "m", "t", "w", "th", "f", "s"}

RepeatSchedule == [Flags -> BOOLEAN]
OnlyOn(flag) == [x \in Flags |-> x = flag]
SampleSchedules == {OnlyOn("m"), OnlyOn("su")}

Task(id, repeat) == [_id |-> id, repeat |-> repeat]
TaskLists ==
    UNION {{[i \in 1..n |-> Task(i, r[i])] :
               r \in [1..n -> {None} \cup {Some(x) : x \in SampleSchedules}]} :
           n \in 0..MaxTasks}

DayStartSamples == {0 - (MaxDayStart - 1), 0, 3, MaxDayStart + 1}
Statuses == {200, 204, 404, 500}

Routes == {"/", "/complete/:id", "/static", "/api/login", "/login"}
Login == [username : Usernames, password : Passwords]
CookieJar == [authorization_token : {None} \cup {Some(v) : v \in CookieValues},
              other : {None, Some("tok")}]

NoRequest == [route |-> "", jar |-> [authorization_token |-> None, other |-> None],
              form |-> None, client |-> ""]
NoResponse == [kind |-> "none", location |-> None, set_cookie |-> None]

Redirect(to) == [kind |-> "redirect", location |-> Some(to), set_cookie |-> None]
Aborted == [kind |-> "aborted", location |-> None, set_cookie |-> None]
Plain(kind) == [kind |-> kind, location |-> None, set_cookie |-> None]

-----------------------------------------------------------------------------
(* DueTodayEvaluator: task_due_today, main.rs 120-132 *)

\* (variant of current_date_with_offset: the offset moves the hour of the day only,
\* the calendar date is not rolled)
offset_without_date_roll(day_start) == ((now \div 24) * 24) + (((now % 24) - day_start) % 24)

\* chrono::Local::now() - Duration::hours(day_start_hour.into())
current_date_with_offset(day_start) == now - day_start

\* DateTime::weekday(): the calendar weekday of the local date of dt.  \div
\* rounds down, so instants before hour 0 fall on the days before that Monday.
weekday(dt) == Weekdays[((dt \div 24) % 7) + 1]

\* (variant of schedule_flag: the arms of Sunday and Saturday exchanged, su for s)
schedule_flag_su_s_swapped(schedule, day) ==
    CASE day = "Sun" -> schedule["s"]
      [] day = "Mon" -> schedule["m"]
      [] day = "Tue" -> schedule["t"]
      [] day = "Wed" -> schedule["w"]
      [] day = "Thu" -> schedule["th"]
      [] day = "Fri" -> schedule["f"]
      [] day = "Sat" -> schedule["su"]

\* the match on day_of_week
schedule_flag(schedule, day) ==
    CASE day = "Sun" -> schedule["su"]
      [] day = "Mon" -> schedule["m"]
      [] day = "Tue" -> schedule["t"]
      [] day = "Wed" -> schedule["w"]
      [] day = "Thu" -> schedule["th"]
      [] day = "Fri" -> schedule["f"]
      [] day = "Sat" -> schedule["s"]

task_due_today(schedule, day_start) ==
    schedule_flag(schedule, weekday(current_date_with_offset(day_start)))

\* (variant of filter_task: map_or(false, ..), a task without schedule is dropped)
filter_task_default_false(task, day_start) ==
    IF task.repeat = None THEN FALSE ELSE task_due_today(task.repeat[1], day_start)

\* the closure of get_due_tasks' filter: task.repeat.map_or(true, ...)
filter_task(task, day_start) ==
    IF task.repeat = None THEN TRUE ELSE task_due_today(task.repeat[1], day_start)

-----------------------------------------------------------------------------
(* SessionGate and LoginHandler *)

\* (variant of authorized: any cookie of that name is accepted, its value unread)
authorized_if_present(jar, st) == jar.authorization_token # None

\* jar.get("authorization_token") is Some(c) with c.value() == state.authz_token
authorized(jar, st) ==
    /\ jar.authorization_token # None
    /\ jar.authorization_token[1] = st.authz_token

\* (variant of login_response: && for ||, one matching field is enough)
login_response_either_field(jar, form, st) ==
    IF authorized(jar, st)
    THEN Redirect("/")
    ELSE IF form.username # st.username /\ form.password # st.password
    THEN Redirect("/login")
    ELSE [kind |-> "redirect", location |-> Some("/"),
          set_cookie |-> Some(st.authz_token)]

\* (variant of login_response: the credentials are checked before the cookie)
login_response_credentials_first(jar, form, st) ==
    IF form.username # st.username \/ form.password # st.password
    THEN Redirect("/login")
    ELSE IF authorized(jar, st)
    THEN Redirect("/")
    ELSE [kind |-> "redirect", location |-> Some("/"),
          set_cookie |-> Some(st.authz_token)]

\* (variant of login_response: the password is not compared)
login_response_username_only(jar, form, st) ==
    IF authorized(jar, st)
    THEN Redirect("/")
    ELSE IF form.username # st.username
    THEN Redirect("/login")
    ELSE [kind |-> "redirect", location |-> Some("/"),
          set_cookie |-> Some(st.authz_token)]

\* the body of login, after its extractors succeeded: main.rs 192-216
login_response(jar, form, st) ==
    IF authorized(jar, st)
    THEN Redirect("/")
    ELSE IF form.username # st.username \/ form.password # st.password
    THEN Redirect("/login")
    ELSE [kind |-> "redirect", location |-> Some("/"),
          set_cookie |-> Some(st.authz_token)]

\* (variant of main: "/complete/:id" added after the route_layer, so outside it)
main_complete_after_layer(route) ==
    CASE route = "/" -> "authorization"
      [] route = "/complete/:id" -> "clicked"
      [] route = "/static" -> "ServeDir"
      [] route = "/api/login" -> "login"
      [] route = "/login" -> "ServeFile"

\* the Router of main: where a request to each route goes first.  The
\* route_layer covers the routes added before it: "/" and "/complete/:id".
main(route) ==
    CASE route = "/" -> "authorization"
      [] route = "/complete/:id" -> "authorization"
      [] route = "/static" -> "ServeDir"
      [] route = "/api/login" -> "login"
      [] route = "/login" -> "ServeFile"

\* next.run(req): the handler behind the gate
next_run(route) == IF route = "/" THEN "root" ELSE "clicked"

-----------------------------------------------------------------------------
(* Initial states *)

Rest ==
    /\ pc = "idle"
    /\ req = NoRequest
    /\ gate_ran = FALSE
    /\ admitted = FALSE
    /\ all_tasks = <<>>
    /\ idx = 0
    /\ due_tasks = <<>>
    /\ read_at = <<>>
    /\ upstream_status = 0
    /\ score_result = "none"
    /\ remote_calls = 0
    /\ resp = NoResponse
    /\ day_start_hour = 0
    /\ repeat_schedule = None
    /\ day_of_week = ""
    /\ due = FALSE

Init ==
    /\ state \in [username : Usernames, password : Passwords, authz_token : Tokens]
    /\ now = MaxNow - 3
    /\ Rest
    /\ browser_jar \in {None} \cup {Some(v) : v \in CookieValues \ {state.authz_token}}
    /\ good_login = FALSE

-----------------------------------------------------------------------------
(* Actions *)

\* the local clock advances
Tick ==
    /\ now < MaxNow
    /\ now' = now + 1
    /\ UNCHANGED <<state, pc, req, gate_ran, admitted, day_start_hour, all_tasks, idx,
                   due_tasks, read_at, repeat_schedule, day_of_week, due,
                   upstream_status, score_result, remote_calls, resp, browser_jar,
                   good_login>>

\* a request arrives and the Router dispatches it.  The browser sends the cookie
\* it stored; any other client sends what it likes.
Request ==
    /\ pc = "idle"
    /\ \E route \in Routes, jar \in CookieJar, client \in {"browser", "other"},
          form \in {None} \cup {Some(l) : l \in Login} :
          /\ client = "browser" => (jar.authorization_token = browser_jar /\ jar.other = None)
          /\ route # "/api/login" => form = None
          /\ req' = [route |-> route, jar |-> jar, form |-> form, client |-> client]
          /\ pc' = main(route)
          /\ good_login' = \/ good_login
                           \/ /\ client = "browser"
                              /\ route = "/api/login"
                              /\ form # None
                              /\ form[1].username = state.username
                              /\ form[1].password = state.password
    /\ UNCHANGED <<state, now, gate_ran, admitted, day_start_hour, all_tasks, idx,
                   due_tasks, read_at, repeat_schedule, day_of_week, due,
                   upstream_status, score_result, remote_calls, resp, browser_jar>>

\* the middleware authorization: main.rs 219-236
authorization ==
    /\ pc = "authorization"
    /\ gate_ran' = TRUE
    /\ IF authorized(req.jar, state)
       THEN /\ admitted' = TRUE
            /\ pc' = next_run(req.route)
            /\ resp' = resp
       ELSE /\ admitted' = FALSE
            /\ pc' = "done"
            /\ resp' = Redirect("/login")
    /\ UNCHANGED <<state, now, req, day_start_hour, all_tasks, idx, due_tasks, read_at,
                   repeat_schedule, day_of_week, due, upstream_status, score_result,
                   remote_calls, browser_jar, good_login>>

\* root, first await: get_day_start_hour (main.rs 134-148, 157).  The remote
\* service answers with a dayStart, or the call or the body fails and unwrap panics.
get_day_start_hour ==
    /\ pc = "root"
    /\ remote_calls' = remote_calls + 1
    /\ \/ /\ \E d \in DayStartSamples : day_start_hour' = d
          /\ pc' = "get_all_tasks"
          /\ resp' = resp
       \/ /\ day_start_hour' = day_start_hour
          /\ pc' = "done"
          /\ resp' = Aborted
    /\ UNCHANGED <<state, now, req, gate_ran, admitted, all_tasks, idx, due_tasks,
                   read_at, repeat_schedule, day_of_week, due, upstream_status,
                   score_result, browser_jar, good_login>>

\* get_due_tasks, first line: get_all_tasks (main.rs 68, 78-90)
get_all_tasks ==
    /\ pc = "get_all_tasks"
    /\ remote_calls' = remote_calls + 1
    /\ \/ /\ \E tasks \in TaskLists : all_tasks' = tasks
          /\ idx' = 1
          /\ pc' = "filter"
          /\ resp' = resp
       \/ /\ all_tasks' = all_tasks
          /\ idx' = idx
          /\ pc' = "done"
          /\ resp' = Aborted
    /\ UNCHANGED <<state, now, req, gate_ran, admitted, day_start_hour, due_tasks,
                   read_at, repeat_schedule, day_of_week, due, upstream_status,
                   score_result, browser_jar, good_login>>

\* get_due_tasks, one step of into_iter().filter(..).collect() (main.rs 69-75):
\* the closure runs on the next task; task_due_today reads the clock itself.
get_due_tasks ==
    /\ pc = "filter"
    /\ idx <= Len(all_tasks)
    /\ LET task == all_tasks[idx] IN
         /\ due_tasks' = IF filter_task(task, day_start_hour)
                         THEN Append(due_tasks, task) ELSE due_tasks
         /\ read_at' = Append(read_at, now)
         /\ IF task.repeat = None
            THEN UNCHANGED <<repeat_schedule, day_of_week, due>>
            ELSE /\ repeat_schedule' = task.repeat
                 /\ day_of_week' = weekday(current_date_with_offset(day_start_hour))
                 /\ due' = task_due_today(task.repeat[1], day_start_hour)
    /\ idx' = idx + 1
    /\ UNCHANGED <<state, now, pc, req, gate_ran, admitted, day_start_hour, all_tasks,
                   upstream_status, score_result, remote_calls, resp, browser_jar,
                   good_login>>

\* root, after get_due_tasks returned: render and answer 200 (main.rs 165-166)
root ==
    /\ pc = "filter"
    /\ idx > Len(all_tasks)
    /\ pc' = "done"
    /\ resp' = Plain("ok")
    /\ UNCHANGED <<state, now, req, gate_ran, admitted, day_start_hour, all_tasks, idx,
                   due_tasks, read_at, repeat_schedule, day_of_week, due,
                   upstream_status, score_result, remote_calls, browser_jar, good_login>>

\* how score_task ends on a status: main.rs 114-117
score_task(status) == IF status = 200 THEN "Ok" ELSE "panic"

\* clicked: score_task(.., "up").await.unwrap() (main.rs 169-179, 92-118).
\* A panic unwinds the task serving the connection: no response is written.
clicked ==
    /\ pc = "clicked"
    /\ remote_calls' = remote_calls + 1
    /\ \E status \in Statuses :
          /\ upstream_status' = status
          /\ score_result' = score_task(status)
          /\ resp' = IF score_task(status) = "Ok" THEN Plain("ok")
                     ELSE IF score_task(status) = "Err" THEN Plain("error")
                     ELSE Aborted
    /\ pc' = "done"
    /\ UNCHANGED <<state, now, req, gate_ran, admitted, day_start_hour, all_tasks, idx,
                   due_tasks, read_at, repeat_schedule, day_of_week, due, browser_jar,
                   good_login>>

\* login: main.rs 187-217.  The extractors run first: Form<Login> rejects a
\* request whose body is absent or does not deserialize, and the body never runs.
login ==
    /\ pc = "login"
    /\ resp' = IF req.form = None
               THEN Plain("rejected")
               ELSE login_response(req.jar, req.form[1], state)
    /\ pc' = "done"
    /\ UNCHANGED <<state, now, req, gate_ran, admitted, day_start_hour, all_tasks, idx,
                   due_tasks, read_at, repeat_schedule, day_of_week, due,
                   upstream_status, score_result, remote_calls, browser_jar, good_login>>

\* the static services: ServeDir under /static, ServeFile at /login (main.rs 270, 272)
serve ==
    /\ pc \in {"ServeDir", "ServeFile"}
    /\ resp' = Plain("file")
    /\ pc' = "done"
    /\ UNCHANGED <<state, now, req, gate_ran, admitted, day_start_hour, all_tasks, idx,
                   due_tasks, read_at, repeat_schedule, day_of_week, due,
                   upstream_status, score_result, remote_calls, browser_jar, good_login>>

\* the response (or the closed connection) reaches the client; the browser
\* stores the cookie of a Set-Cookie header.
Respond ==
    /\ pc = "done"
    /\ browser_jar' = IF req.client = "browser" /\ resp.set_cookie # None
                      THEN resp.set_cookie ELSE browser_jar
    /\ pc' = "idle"
    /\ req' = NoRequest
    /\ gate_ran' = FALSE
    /\ admitted' = FALSE
    /\ all_tasks' = <<>>
    /\ idx' = 0
    /\ due_tasks' = <<>>
    /\ read_at' = <<>>
    /\ upstream_status' = 0
    /\ score_result' = "none"
    /\ remote_calls' = 0
    /\ resp' = NoResponse
    /\ day_start_hour' = 0
    /\ repeat_schedule' = None
    /\ day_of_week' = ""
    /\ due' = FALSE
    /\ UNCHANGED <<state, now, good_login>>

Next ==
    \/ Tick
    \/ Request
    \/ authorization
    \/ get_day_start_hour
    \/ get_all_tasks
    \/ get_due_tasks
    \/ root
    \/ clicked
    \/ login
    \/ serve
    \/ Respond

Spec == Init /\ [][Next]_vars

-----------------------------------------------------------------------------
(* The due-today evaluator on its own: every input, one evaluation *)

InitDue ==
    /\ state = [username |-> "admin", password |-> "pw", authz_token |-> "tok"]
    /\ now \in 0..(Len(Weekdays) * 24 - 1)
    /\ \/ /\ day_start_hour = 0
          /\ repeat_schedule \in {Some(x) : x \in RepeatSchedule}
       \/ /\ day_start_hour \in (0 - MaxDayStart)..MaxDayStart
          /\ repeat_schedule \in {Some(x) : x \in SampleSchedules}
    /\ pc = "task_due_today"
    /\ req = NoRequest
    /\ gate_ran = FALSE
    /\ admitted = FALSE
    /\ all_tasks = <<>>
    /\ idx = 0
    /\ due_tasks = <<>>
    /\ read_at = <<>>
    /\ day_of_week = ""
    /\ due = FALSE
    /\ upstream_status = 0
    /\ score_result = "none"
    /\ remote_calls = 0
    /\ resp = NoResponse
    /\ browser_jar = None
    /\ good_login = FALSE

\* one call of task_due_today(repeat_schedule, day_start_hour): main.rs 120-132
eval_task_due_today ==
    /\ pc = "task_due_today"
    /\ day_of_week' = weekday(current_date_with_offset(day_start_hour))
    /\ due' = task_due_today(repeat_schedule[1], day_start_hour)
    /\ pc' = "evaluated"
    /\ UNCHANGED <<state, now, req, gate_ran, admitted, day_start_hour, all_tasks, idx,
                   due_tasks, read_at, repeat_schedule, upstream_status, score_result,
                   remote_calls, resp, browser_jar, good_login>>

NextDue == eval_task_due_today

SpecDue == InitDue /\ [][NextDue]_vars

-----------------------------------------------------------------------------
(* The calendar, stated apart from the code: hour 0 opens a Monday, a day has *)
(* 24 hours, and the days follow each other in the order of the week.         *)

FlagOfDay == <<"m", "t", "w", "th", "f", "s", "su">>
DayName == <<"Mon", "Tue", "Wed", "Thu", "Fri", "Sat", "Sun">>

\* the place in the week (1: Monday .. 7: Sunday) of the day holding hour h
DayIndex(h) ==
    CHOOSE k \in 1..7 : \E d \in -8..16 :
        /\ 24 * d <= h
        /\ h <= 24 * d + 23
        /\ (d - (k - 1)) % 7 = 0

ValidCookie == req.jar.authorization_token = Some(state.authz_token)
CredentialsMatch ==
    /\ req.form # None
    /\ req.form[1].username = state.username
    /\ req.form[1].password = state.password
Protected == {"/", "/complete/:id"}

-----------------------------------------------------------------------------
(* Claims *)

\* C1 (as amended): once the gate has run on a request, the request is admitted
\* if and only if its authorization_token cookie equals the configured token;
\* a missing or mismatched cookie is answered by a redirect to /login, and so
\* is an empty one whenever the configured token is not empty.
GateAdmitsIffCookieEqualsToken ==
    gate_ran =>
        /\ admitted <=> ValidCookie
        /\ ~ValidCookie => (pc = "done" /\ resp = Redirect("/login"))
        /\ ValidCookie => resp.location # Some("/login")
        /\ (req.jar.authorization_token = Some("") /\ state.authz_token # "")
              => resp = Redirect("/login")

\* C1 witness: token "tok", an empty cookie, the gate redirected to /login
GateRedirectsEmptyCookieWitness ==
    /\ gate_ran
    /\ state.authz_token = "tok"
    /\ req.jar.authorization_token = Some("")
    /\ ~admitted
    /\ resp = Redirect("/login")

\* C1 as stated: admitted iff the cookie equals the token, and any missing,
\* empty or mismatched cookie value is redirected to /login.
GateRedirectsMissingEmptyMismatched ==
    gate_ran =>
        /\ admitted <=> ValidCookie
        /\ ~ValidCookie => (pc = "done" /\ resp = Redirect("/login"))
        /\ req.jar.authorization_token \in {None, Some("")}
              => (~admitted /\ resp = Redirect("/login"))

\* C2: the handlers of the protected routes, and every remote call, run only
\* for a request the gate has admitted; a request the gate refused made no
\* remote call and ends as the redirect; /api/login, /login and /static are
\* served without the gate.
HandlerOnlyAfterGate ==
    /\ pc \in {"root", "get_all_tasks", "filter", "clicked"}
          => (gate_ran /\ admitted /\ ValidCookie /\ req.route \in Protected)
    /\ remote_calls > 0 => (gate_ran /\ admitted /\ ValidCookie /\ req.route \in Protected)
    /\ (req.route \in Protected /\ resp.kind \in {"ok", "error", "aborted"})
          => (gate_ran /\ admitted /\ ValidCookie)
    /\ (gate_ran /\ ~ValidCookie)
          => (remote_calls = 0 /\ score_result = "none" /\ all_tasks = <<>>
              /\ resp = Redirect("/login"))
    /\ req.route \in {"/api/login", "/login", "/static"}
          => (~gate_ran /\ ~admitted /\ remote_calls = 0)
    /\ (pc = "done" /\ req.route \in {"/login", "/static"}) => resp = Plain("file")
    /\ (pc = "done" /\ req.route = "/api/login") => resp.kind \in {"redirect", "rejected"}

\* C2 witness: a completion request, admitted by the gate, made its remote call
CompletionAfterGateWitness ==
    /\ pc = "done"
    /\ req.route = "/complete/:id"
    /\ gate_ran
    /\ admitted
    /\ remote_calls = 1

\* C3: login without a valid session cookie: with the configured username and
\* password it sets a cookie equal to the configured token and redirects to /;
\* with a username or a password that differs it sets no cookie and redirects
\* to /login.
LoginChecksCredentials ==
    (pc = "done" /\ req.route = "/api/login" /\ req.form # None /\ ~ValidCookie) =>
        /\ CredentialsMatch =>
              /\ resp.set_cookie = Some(state.authz_token)
              /\ resp.location = Some("/")
              /\ resp.kind = "redirect"
        /\ ~CredentialsMatch => resp = Redirect("/login")

\* C3 witness: no cookie, the configured credentials, the cookie is issued
LoginIssuesCookieWitness ==
    /\ pc = "done"
    /\ req.route = "/api/login"
    /\ req.jar.authorization_token = None
    /\ CredentialsMatch
    /\ resp.set_cookie = Some(state.authz_token)
    /\ resp.location = Some("/")

\* C4 (as amended): login on a request that carries a valid session cookie and
\* a form body that deserializes redirects to / and sets no cookie, whatever
\* the submitted username and password.
LoginShortCircuitsOnValidCookie ==
    (pc = "done" /\ req.route = "/api/login" /\ ValidCookie /\ req.form # None)
        => resp = Redirect("/")

\* C4 witness: a valid cookie, credentials that do not match, redirect to /
LoginShortCircuitWitness ==
    /\ pc = "done"
    /\ req.route = "/api/login"
    /\ ValidCookie
    /\ req.form # None
    /\ ~CredentialsMatch
    /\ resp = Redirect("/")

\* C4 as stated: with a valid session cookie login redirects to / and sets no
\* cookie for every submission, an absent or malformed form body included.
LoginShortCircuitsWhateverTheBody ==
    (pc = "done" /\ req.route = "/api/login" /\ ValidCookie) => resp = Redirect("/")

\* C5: with dayStartHour = 0, task_due_today returns the schedule's flag of the
\* weekday of now (Monday m, Tuesday t, Wednesday w, Thursday th, Friday f,
\* Saturday s, Sunday su), for all 2^7 schedules and all seven days; a schedule
\* with only m set is due on Monday and on no other day.
DueIsTheFlagOfTheWeekday ==
    (pc = "evaluated" /\ day_start_hour = 0) =>
        /\ \A k \in 1..7 :
              (24 * (k - 1) <= now /\ now <= 24 * k - 1)
                  => (due = repeat_schedule[1][FlagOfDay[k]] /\ day_of_week = DayName[k])
        /\ repeat_schedule[1] = OnlyOn("m") => (due <=> now \in 0..23)

\* C5 witness: a schedule with only s and th set, evaluated on a Saturday, is due
DueOnSaturdayWitness ==
    /\ pc = "evaluated"
    /\ day_start_hour = 0
    /\ repeat_schedule = Some([x \in Flags |-> x \in {"s", "th"}])
    /\ now \in 120..143
    /\ day_of_week = "Sat"
    /\ due

\* C6: the weekday used is the calendar weekday of the day that holds the hour
\* now - dayStartHour, for negative offsets and offsets above 24 too; at
\* 2024-01-02T01:00 (hour 25, a Tuesday) with dayStartHour = 3 it is Monday.
WeekdayIsThatOfTheOffsetInstant ==
    pc = "evaluated" =>
        /\ day_of_week = DayName[DayIndex(now - day_start_hour)]
        /\ due = repeat_schedule[1][FlagOfDay[DayIndex(now - day_start_hour)]]
        /\ (now = 25 /\ day_start_hour = 3) => day_of_week = "Mon"

\* C6 witness: Tuesday 01:00 with dayStartHour = 3 evaluated as Monday
RollbackToMondayWitness ==
    /\ pc = "evaluated"
    /\ now = 25
    /\ day_start_hour = 3
    /\ day_of_week = "Mon"
    /\ repeat_schedule = Some(OnlyOn("m"))
    /\ due

\* C7: get_due_tasks returns, in the order of the remote list and without
\* duplicates or additions, exactly the tasks that have no schedule or whose
\* schedule has the flag of the effective weekday at their evaluation; a task
\* without schedule and a su-only task, on a non-Sunday with dayStartHour = 0,
\* give exactly the task without schedule.
DueTasksAreTheDueSubsequence ==
    pc = "filter" =>
        LET Keep(t) ==
                \/ t.repeat = None
                \/ t.repeat[1][FlagOfDay[DayIndex(read_at[t._id] - day_start_hour)]]
            seen == SubSeq(all_tasks, 1, idx - 1)
        IN  /\ due_tasks = SelectSeq(seen, Keep)
            /\ \A i \in 1..Len(due_tasks) : \E j \in 1..Len(seen) : due_tasks[i] = seen[j]
            /\ \A i, j \in 1..Len(due_tasks) : i < j => due_tasks[i]._id < due_tasks[j]._id
            /\ \A j \in 1..Len(seen) :
                  seen[j].repeat = None => \E i \in 1..Len(due_tasks) : due_tasks[i] = seen[j]
            /\ (/\ idx > Len(all_tasks)
                /\ all_tasks = <<Task(1, None), Task(2, Some(OnlyOn("su")))>>
                /\ day_start_hour = 0
                /\ \A i \in 1..Len(read_at) : DayIndex(read_at[i]) # 7)
                  => due_tasks = <<Task(1, None)>>

\* C7 witness: the list of the example, filtered to the end on a non-Sunday
DueTasksExampleWitness ==
    /\ pc = "filter"
    /\ idx > Len(all_tasks)
    /\ all_tasks = <<Task(1, None), Task(2, Some(OnlyOn("su")))>>
    /\ day_start_hour = 0
    /\ due_tasks = <<Task(1, None)>>

\* C8 as stated: when the upstream status of a completion is not a success
\* status, score_task returns an error to its caller, the request ends as a
\* failed response, and exactly one remote call was made.
UpstreamErrorIsReturned ==
    (pc = "done" /\ req.route = "/complete/:id" /\ admitted
        /\ upstream_status \in {404, 500})
        => (score_result = "Err" /\ resp = Plain("error") /\ remote_calls = 1)

\* C9: the browser, which starts without a valid cookie and stores only cookies
\* the server sets, is admitted to a protected route (and holds the token) only
\* after it submitted the configured username and password to /api/login; the
\* server sets no cookie but the configured token, and only in the response to
\* a login whose credentials both match.
AdmittedOnlyAfterGoodLogin ==
    /\ (req.client = "browser" /\ admitted) => good_login
    /\ browser_jar = Some(state.authz_token) => good_login
    /\ resp.set_cookie # None =>
          /\ resp.set_cookie = Some(state.authz_token)
          /\ req.route = "/api/login"
          /\ CredentialsMatch

\* C9 witness: the browser, after a good login, is admitted to the dashboard
BrowserAdmittedWitness ==
    /\ req.client = "browser"
    /\ req.route = "/"
    /\ admitted
    /\ good_login

\* C10 as stated: within one dashboard request two tasks with the same repeat
\* schedule are both included or both excluded.
SameScheduleSameVerdict ==
    (pc = "filter" /\ idx > Len(all_tasks)) =>
        \A i, j \in 1..Len(all_tasks) :
            all_tasks[i].repeat = all_tasks[j].repeat =>
                ((\E k \in 1..Len(due_tasks) : due_tasks[k]._id = i)
                    <=> (\E k \in 1..Len(due_tasks) : due_tasks[k]._id = j))

====
